---- MODULE Spec2Model ----
(***************************************************************************)
(* A model of plr::IniFile (src/plr/IniFile.cpp): the lexer cursor         *)
(* primitives, IniFile::parse taken one main-loop iteration at a time,     *)
(* IniFile::getProperty and IniFile::~IniFile.                             *)
(*                                                                         *)
(* A buffer is a sequence of one-character strings; the terminating null   *)
(* is the character read at index Len(buffer) + 1.  Offsets stored in the  *)
(* records (m_keyOffset, m_valueOffset, m_first) are 0-based as in the     *)
(* code; TLA+ sequences are 1-based, so element i of a vector is seq[i+1]. *)
(* A pointer (m_string, m_first) is the 1-based index of what it points    *)
(* to, 0 for the null pointer.                                             *)
(***************************************************************************)
EXTENDS Integers, Sequences, FiniteSets, TLC

VARIABLES
    m_sections,   \* std::vector<Section>
    m_keys,       \* std::vector<Key>
    m_values,     \* std::vector<Value>
    heap,         \* char buffers obtained with new[]: heap[p] is "live" or "freed"
    deletes,      \* the delete[] calls made by ~IniFile, in order
    pc,           \* "idle", "parsing", "destroyed" or "crashed"
    str,          \* the buffer of the current (or last) parse call
    pos,          \* _str, as a 1-based index into str
    line,         \* the line counter of the current parse call
    err,          \* the return value of the last parse call
    log,          \* the diagnostics logged so far (INI_ERROR), in order
    ret,          \* the Property returned by the last getProperty call
    query,        \* the arguments of the last getProperty call
    calls,        \* number of parse calls made on the store
    fuel,         \* number of input items still available to parse calls
    declared,     \* history: the names read by the current parse call
    nameSeen,     \* history: a name was read in this call after the last header
    file,         \* history: the file of the load call in progress or last made
    trial,        \* history: the buffers and the outcome of a two-call run
    dom,          \* Json: the values of m_dom; dom[1] is the document itself
    m_value,      \* Json::Impl::m_value
    m_stack,      \* Json::Impl::m_stack
    jpc,          \* Json: "ready" or "crashed"
    jlast         \* Json: the last call made, its argument and what it returned

IniVars == <<m_sections, m_keys, m_values, heap, deletes, pc, str, pos, line,
             err, log, ret, query, calls, fuel, declared, nameSeen, file, trial>>

JsonVars == <<dom, m_value, m_stack, jpc, jlast>>

vars == <<m_sections, m_keys, m_values, heap, deletes, pc, str, pos, line,
          err, log, ret, query, calls, fuel, declared, nameSeen, file, trial,
          dom, m_value, m_stack, jpc, jlast>>

----------------------------------------------------------------------------
(* Bounds of the model *)

\* total number of input items handed to the parse calls of one store
MaxItems == 3
\* number of parse calls on one store
MaxCalls == 2
\* cap on the key list (the parser can append keys without bound)
MaxKeys == 4

----------------------------------------------------------------------------
(* Characters *)

NUL == "NUL"

CharAt(b, i) == IF i >= 1 /\ i <= Len(b) THEN b[i] ELSE NUL

Digits == {"0", "1", "2", "3", "4", "5", "6", "7", "8", "9"}

Letters == {"a", "b", "c", "d", "e", "f", "g", "h", "i", "l", "n", "p", "r",
            "s", "t", "u", "w", "x", "E", "N", "X"}

isdigit(c) == c \in Digits

isalnum(c) == c \in Digits \cup Letters

isspace(c) == c \in {" ", "\t", "\n", "\r"}

kLineEnd == <<"\n">>

\* strchr(kLineEnd, c) != 0: strchr also finds the terminator of kLineEnd
IsLineEnd(c) == c = NUL \/ \E i \in 1..Len(kLineEnd) : kLineEnd[i] = c

----------------------------------------------------------------------------
(* Lexer cursor primitives.  Each takes the buffer, the cursor and the     *)
(* line counter and yields the new cursor and line counter.                *)

\* a search for the first character of cs only
RECURSIVE ContainsAny_FirstOfSet(_, _, _, _)
ContainsAny_FirstOfSet(b, beg, end, cs) ==
    IF CharAt(b, beg) # NUL /\ beg # end
    THEN IF cs[1] = CharAt(b, beg)
         THEN TRUE
         ELSE ContainsAny_FirstOfSet(b, beg + 1, end, cs)
    ELSE FALSE

RECURSIVE ContainsAny(_, _, _, _)
ContainsAny(b, beg, end, cs) ==
    IF CharAt(b, beg) # NUL /\ beg # end
    THEN IF \E i \in 1..Len(cs) : cs[i] = CharAt(b, beg)
         THEN TRUE
         ELSE ContainsAny(b, beg + 1, end, cs)
    ELSE FALSE

RECURSIVE SkipWhitespace(_, _, _)
SkipWhitespace(b, p, ln) ==
    IF isspace(CharAt(b, p))
    THEN SkipWhitespace(b, p + 1, IF IsLineEnd(CharAt(b, p)) THEN ln + 1 ELSE ln)
    ELSE [pos |-> p, line |-> ln]

\* the scan reports the delimiter found also when it stopped at the terminator
RECURSIVE AdvanceToNext_AlwaysFound(_, _, _, _)
AdvanceToNext_AlwaysFound(b, p, c, ln) ==
    IF CharAt(b, p) # NUL /\ CharAt(b, p) # c
    THEN AdvanceToNext_AlwaysFound(b, p + 1, c,
                                   IF IsLineEnd(CharAt(b, p)) THEN ln + 1 ELSE ln)
    ELSE [pos |-> p, line |-> ln, found |-> TRUE]

RECURSIVE AdvanceToNext(_, _, _, _)
AdvanceToNext(b, p, c, ln) ==
    IF CharAt(b, p) # NUL /\ CharAt(b, p) # c
    THEN AdvanceToNext(b, p + 1, c, IF IsLineEnd(CharAt(b, p)) THEN ln + 1 ELSE ln)
    ELSE [pos |-> p, line |-> ln, found |-> CharAt(b, p) # NUL]

\* a scan that reports a character found also at the terminating null
RECURSIVE AdvanceToNextNonAlphanumeric_EndFound(_, _, _)
AdvanceToNextNonAlphanumeric_EndFound(b, p, ln) ==
    IF CharAt(b, p) # NUL /\ isalnum(CharAt(b, p))
    THEN AdvanceToNextNonAlphanumeric_EndFound(b, p + 1,
                                      IF IsLineEnd(CharAt(b, p)) THEN ln + 1 ELSE ln)
    ELSE [pos |-> p, line |-> ln, found |-> TRUE]

RECURSIVE AdvanceToNextNonAlphanumeric(_, _, _)
AdvanceToNextNonAlphanumeric(b, p, ln) ==
    IF CharAt(b, p) # NUL /\ isalnum(CharAt(b, p))
    THEN AdvanceToNextNonAlphanumeric(b, p + 1,
                                      IF IsLineEnd(CharAt(b, p)) THEN ln + 1 ELSE ln)
    ELSE [pos |-> p, line |-> ln, found |-> CharAt(b, p) # NUL]

\* a scan that a comma does not stop
RECURSIVE AdvanceToNextWhiteSpaceOrComma_SpaceOnly(_, _, _)
AdvanceToNextWhiteSpaceOrComma_SpaceOnly(b, p, ln) ==
    IF CharAt(b, p) # NUL /\ ~isspace(CharAt(b, p))
    THEN AdvanceToNextWhiteSpaceOrComma_SpaceOnly(b, p + 1,
                                        IF IsLineEnd(CharAt(b, p)) THEN ln + 1 ELSE ln)
    ELSE [pos |-> p, line |-> ln, found |-> CharAt(b, p) # NUL]

RECURSIVE AdvanceToNextWhiteSpaceOrComma(_, _, _)
AdvanceToNextWhiteSpaceOrComma(b, p, ln) ==
    IF CharAt(b, p) # NUL /\ ~(isspace(CharAt(b, p)) \/ CharAt(b, p) = ",")
    THEN AdvanceToNextWhiteSpaceOrComma(b, p + 1,
                                        IF IsLineEnd(CharAt(b, p)) THEN ln + 1 ELSE ln)
    ELSE [pos |-> p, line |-> ln, found |-> CharAt(b, p) # NUL]

RECURSIVE SkipLineScan(_, _)
SkipLineScan(b, p) ==
    IF CharAt(b, p) # NUL /\ ~IsLineEnd(CharAt(b, p))
    THEN SkipLineScan(b, p + 1)
    ELSE p

\* a skip that steps over the character the scan stopped at, whatever it is
SkipLine_AlwaysSteps(b, p, ln) ==
    [pos |-> SkipLineScan(b, p) + 1, line |-> ln + 1]

SkipLine(b, p, ln) ==
    LET q == SkipLineScan(b, p)
    IN  IF CharAt(b, q) # NUL
        THEN [pos |-> q + 1, line |-> ln + 1]
        ELSE [pos |-> q, line |-> ln]

\* the loop of lines 175-178: comments between '='/',' and the value
RECURSIVE SkipComments(_, _, _)
SkipComments(b, p, ln) ==
    IF CharAt(b, p) = ";"
    THEN LET a == SkipLine(b, p, ln)
             w == SkipWhitespace(b, a.pos, a.line)
         IN  SkipComments(b, w.pos, w.line)
    ELSE [pos |-> p, line |-> ln]

----------------------------------------------------------------------------
(* strtol(beg, 0, 0) and strtod(beg, 0) of the C library, on the decimal,  *)
(* octal and hexadecimal integers and the decimal floating literals that   *)
(* the input alphabet can spell.  A double is the pair [m, e] standing for *)
(* m * 10^e, with m not divisible by 10 unless it is 0.                    *)

DigitVal(c) ==
    CASE c = "0" -> 0 [] c = "1" -> 1 [] c = "2" -> 2 [] c = "3" -> 3
      [] c = "4" -> 4 [] c = "5" -> 5 [] c = "6" -> 6 [] c = "7" -> 7
      [] c = "8" -> 8 [] c = "9" -> 9 [] c = "a" -> 10 [] c = "b" -> 11
      [] c = "c" -> 12 [] c = "d" -> 13 [] c = "e" -> 14 [] c = "f" -> 15
      [] c = "E" -> 14
      [] OTHER -> 99

IsDigitIn(c, base) == DigitVal(c) < base

\* value of the longest run of base-`base` digits at p, and where it ends
RECURSIVE ScanDigits(_, _, _, _)
ScanDigits(b, p, base, acc) ==
    IF IsDigitIn(CharAt(b, p), base)
    THEN ScanDigits(b, p + 1, base, acc * base + DigitVal(CharAt(b, p)))
    ELSE [val |-> acc, pos |-> p]

\* strtod and strtol match letters in either case
LowerCase(c) ==
    CASE c = "E" -> "e" [] c = "N" -> "n" [] c = "X" -> "x" [] OTHER -> c

strtol(b, beg) ==
    LET p1  == SkipWhitespace(b, beg, 0).pos
        sgn == CharAt(b, p1) \in {"-", "+"}
        p2  == IF sgn THEN p1 + 1 ELSE p1
        hex == /\ CharAt(b, p2) = "0"
               /\ LowerCase(CharAt(b, p2 + 1)) = "x"
               /\ IsDigitIn(CharAt(b, p2 + 2), 16)
        base == IF hex THEN 16 ELSE IF CharAt(b, p2) = "0" THEN 8 ELSE 10
        d   == ScanDigits(b, IF hex THEN p2 + 2 ELSE p2, base, 0)
    IN  IF CharAt(b, p1) = "-" THEN 0 - d.val ELSE d.val

\* A double is a decimal m * 10^e with m not a multiple of 10 (the values of
\* the literals of the model are exact in that form), an infinity or a NaN.
Finite(m, e) == [cls |-> "finite", m |-> m, e |-> e]

Infinity(negative) ==
    [cls |-> "inf", m |-> IF negative THEN 0 - 1 ELSE 1, e |-> 0]

NaN == [cls |-> "nan", m |-> 0, e |-> 0]

RECURSIVE Normalise(_, _)
Normalise(m, e) ==
    IF m = 0 THEN Finite(0, 0)
    ELSE IF m % 10 = 0 THEN Normalise(m \div 10, e + 1)
    ELSE Finite(m, e)

\* number of decimal digits of m
RECURSIVE NumDigits(_)
NumDigits(m) ==
    IF m < 0 THEN NumDigits(0 - m)
    ELSE IF m < 10 THEN 1 ELSE 1 + NumDigits(m \div 10)

\* decimal exponents of the largest double and of the smallest denormal
DBL_MAX_10_EXP == 308
DBL_TRUE_MIN_10_EXP == 0 - 324

\* the double nearest to d, when d is out of the range of a double:
\* HUGE_VAL on overflow, zero on underflow
InRange(d) ==
    LET order == d.e + NumDigits(d.m) - 1
    IN  IF d.m = 0 THEN d
        ELSE IF order > DBL_MAX_10_EXP THEN Infinity(d.m < 0)
        ELSE IF order < DBL_TRUE_MIN_10_EXP THEN Finite(0, 0)
        ELSE d

\* the characters of b from p on spell w, in either case
SpellsAt(b, p, w) == \A i \in 1..Len(w) : LowerCase(CharAt(b, p + i - 1)) = w[i]

\* strtod(beg, 0) on a decimal literal, a hexadecimal integer, an infinity
\* or a NaN; 0.0 when no conversion can be made
strtod(b, beg) ==
    LET p1   == SkipWhitespace(b, beg, 0).pos
        sgn  == CharAt(b, p1) \in {"-", "+"}
        neg  == CharAt(b, p1) = "-"
        p2   == IF sgn THEN p1 + 1 ELSE p1
        hex  == /\ CharAt(b, p2) = "0"
                /\ LowerCase(CharAt(b, p2 + 1)) = "x"
                /\ IsDigitIn(CharAt(b, p2 + 2), 16)
        hx   == ScanDigits(b, p2 + 2, 16, 0)
        ip   == ScanDigits(b, p2, 10, 0)
        dot  == CharAt(b, ip.pos) = "."
        fp   == IF dot THEN ScanDigits(b, ip.pos + 1, 10, ip.val) ELSE ip
        nfrac == IF dot THEN fp.pos - (ip.pos + 1) ELSE 0
        ndig == (ip.pos - p2) + nfrac
        hasE == CharAt(b, fp.pos) \in {"e", "E"}
        q1   == fp.pos + 1
        esgn == CharAt(b, q1) \in {"-", "+"}
        q2   == IF esgn THEN q1 + 1 ELSE q1
        ex   == ScanDigits(b, q2, 10, 0)
        expo == IF hasE /\ ex.pos > q2
                THEN (IF CharAt(b, q1) = "-" THEN 0 - ex.val ELSE ex.val)
                ELSE 0
        mag  == IF neg THEN 0 - fp.val ELSE fp.val
    IN  IF SpellsAt(b, p2, <<"i", "n", "f">>) THEN Infinity(neg)
        ELSE IF SpellsAt(b, p2, <<"n", "a", "n">>) THEN NaN
        ELSE IF hex THEN Normalise(IF neg THEN 0 - hx.val ELSE hx.val, 0)
        ELSE IF ndig = 0 THEN Finite(0, 0)
        ELSE InRange(Normalise(mag, expo - nfrac))

----------------------------------------------------------------------------
(* Name hashes *)

Code(c) ==
    CASE c = "a" -> 97 [] c = "b" -> 98 [] c = "c" -> 99 [] c = "d" -> 100
      [] c = "e" -> 101 [] c = "f" -> 102 [] c = "g" -> 103 [] c = "h" -> 104
      [] c = "i" -> 105 [] c = "l" -> 108 [] c = "n" -> 110 [] c = "p" -> 112
      [] c = "r" -> 114 [] c = "s" -> 115 [] c = "t" -> 116 [] c = "u" -> 117
      [] c = "w" -> 119 [] c = "x" -> 120
      [] c = "E" -> 69 [] c = "N" -> 78 [] c = "X" -> 88
      [] c = "0" -> 48 [] c = "1" -> 49 [] c = "2" -> 50 [] c = "3" -> 51
      [] c = "4" -> 52 [] c = "5" -> 53 [] c = "6" -> 54 [] c = "7" -> 55
      [] c = "8" -> 56 [] c = "9" -> 57 [] c = " " -> 32 [] c = "\t" -> 9
      [] c = "\n" -> 10 [] c = "\r" -> 13 [] c = "\"" -> 34 [] c = "+" -> 43
      [] c = "," -> 44 [] c = "-" -> 45 [] c = "." -> 46 [] c = ";" -> 59
      [] c = "=" -> 61 [] c = "[" -> 91 [] c = "]" -> 93 [] c = "_" -> 95
      [] OTHER -> 63

HashWidth == 65536

kHashBase == 5381

RECURSIVE HashFrom(_, _, _)
HashFrom(s, i, h) ==
    IF i > Len(s) THEN h
    ELSE HashFrom(s, i + 1, (h * 33 + Code(s[i])) % HashWidth)

\* the hash collaborator: a deterministic fixed-width integer for a name
StringHash(s) == HashFrom(s, 1, kHashBase)

kInvalidHash == 0

kDefaultSection == kInvalidHash

----------------------------------------------------------------------------
(* Records of the store *)

ValueTypes == {"kBool", "kInt", "kDouble", "kString"}

\* m_type of a Key that parse has not written yet
Indeterminate == "indeterminate"

ZeroDouble == Finite(0, 0)

\* A Value is a union; kind records which member was written last.
BoolValue(x)   == [kind |-> "kBool", m_bool |-> x, m_int |-> 0,
                   m_double |-> ZeroDouble, m_string |-> 0]
IntValue(l)    == [kind |-> "kInt", m_bool |-> FALSE, m_int |-> l,
                   m_double |-> ZeroDouble, m_string |-> 0]
DoubleValue(d) == [kind |-> "kDouble", m_bool |-> FALSE, m_int |-> 0,
                   m_double |-> d, m_string |-> 0]
StringValue(p) == [kind |-> "kString", m_bool |-> FALSE, m_int |-> 0,
                   m_double |-> ZeroDouble, m_string |-> p]

NullPtr == 0
WildPtr == 0 - 1

\* v.m_string as ~IniFile reads it: the buffer of a string, else the bytes
\* of the member that was written, taken as a pointer
StringPtr(v) ==
    CASE v.kind = "kString" -> v.m_string
      [] v.kind = "kInt"    -> IF v.m_int = 0 THEN NullPtr ELSE WildPtr
      [] v.kind = "kDouble" -> IF v.m_double = ZeroDouble THEN NullPtr ELSE WildPtr
      [] OTHER              -> WildPtr

NoQuery == [key |-> <<>>, section |-> <<>>, scoped |-> FALSE, asked |-> FALSE,
            match |-> 0 - 1]

\* Property ret(ValueType::kBool, 0u, 0)
EmptyProperty == [m_type |-> "kBool", m_count |-> 0, m_first |-> NullPtr]

----------------------------------------------------------------------------
(* Input: a buffer is the concatenation of a few items *)

Items ==
    { <<"a">>,                      \* a name
      <<"b", "=", "1">>,            \* another name, with an integer value
      <<"\n">>,                     \* white space, a line end
      <<"[", "s", "]">>,            \* a section header
      <<"[">>,                      \* the opening of a header
      <<"=", "1">>,                 \* an integer value
      <<",", "2">>,                 \* another integer value
      <<",", "t">>,                 \* a boolean value
      <<"=", "\"", "x", "\"">>,     \* a string value
      <<",", "\"">>,                \* the opening of a string value
      <<"\"">>,
      <<",", "0", ".", "5">>,       \* a floating-point value
      <<"_">>,
      <<"1">>,                      \* a digit
      <<";">>,                      \* the opening of a comment
      <<"=">> }

RECURSIVE Flatten(_, _)
Flatten(f, n) == IF n = 0 THEN <<>> ELSE Flatten(f, n - 1) \o f[n]

QueryKeys == { <<"a">>, <<"b">> }

QuerySections == { <<"s">>, <<"g">> }

----------------------------------------------------------------------------
(* Json (src/src/all/apt/Json.cpp).  The values of the document are the    *)
(* elements of dom: a value has a type, and a container has the ids of its *)
(* elements in order (kids) and, for an object, their names.  A pointer to *)
(* a value is its id; a pointer obtained by iterator arithmetic that       *)
(* designates no element keeps the container and the position.             *)

Ptr(id) == [node |-> id, cont |-> 0, idx |-> 0]

\* begin + i of container c, for i at or beyond the number of its elements
PastEnd(c, i) == [node |-> 0, cont |-> c, idx |-> i]

nullptr == Ptr(0)

JsonValue(type) == [type |-> type, names |-> <<>>, kids |-> <<>>]

NoCall == [op |-> "none", name |-> "", result |-> FALSE, tick |-> 0]

\* Json::Json(nullptr): m_dom.SetObject(); push(&m_dom)
JsonInit ==
    /\ dom = <<JsonValue("Object")>>
    /\ m_value = nullptr
    /\ m_stack = <<[first |-> 1, second |-> 0]>>
    /\ jpc = "ready"
    /\ jlast = NoCall

\* history values: no load call was made, no two-call run is recorded
NoFile ==
    [active |-> FALSE, opens |-> FALSE, flen |-> 0, content |-> <<>>,
     read |-> "none", store |-> <<>>]

NoTrial ==
    [stage |-> 0, b1 |-> <<>>, b2 |-> <<>>, err |-> "none",
     sections |-> <<>>, keys |-> <<>>, values |-> <<>>, heap |-> <<>>]

----------------------------------------------------------------------------
(* IniFile::parse *)

Init ==
    /\ m_sections = <<>>
    /\ m_keys = <<>>
    /\ m_values = <<>>
    /\ heap = <<>>
    /\ deletes = <<>>
    /\ pc = "idle"
    /\ str = <<>>
    /\ pos = 1
    /\ line = 1
    /\ err = "none"
    /\ log = <<>>
    /\ ret = EmptyProperty
    /\ query = NoQuery
    /\ calls = 0
    /\ fuel = MaxItems
    /\ declared = <<>>
    /\ nameSeen = FALSE
    /\ file = NoFile
    /\ trial = NoTrial
    /\ JsonInit

\* a Section whose key range always starts at key 0
NewSection_OffsetZero(name, nkeys) ==
    [m_name |-> name, m_count |-> nkeys, m_keyOffset |-> 0]

\* Section s = { name, 0u, m_keys.size() }: the count starts at 0 and the
\* key offset is the length of the key list (the members of Section are
\* declared in IniFile.h in the order m_name, m_count, m_keyOffset)
NewSection(name, nkeys) == [m_name |-> name, m_count |-> 0, m_keyOffset |-> nkeys]

\* a call that creates the default section whether or not the store has one
WithDefaultSection_Always(secs, nkeys) ==
    Append(secs, NewSection(kDefaultSection, nkeys))

\* lines 143-146: the section list once the default section exists
WithDefaultSection(secs, nkeys) ==
    IF secs = <<>> THEN <<NewSection(kDefaultSection, nkeys)>> ELSE secs

\* lines 139-148: parse(b), up to the first test of the loop
ParseCall(b) ==
    /\ str' = b
    /\ m_sections' = WithDefaultSection(m_sections, Len(m_keys))
    /\ pos' = 1
    /\ line' = 1
    /\ pc' = "parsing"
    /\ err' = "none"
    /\ UNCHANGED log
    /\ ret' = EmptyProperty
    /\ query' = NoQuery
    /\ calls' = calls + 1
    /\ declared' = <<>>
    /\ nameSeen' = FALSE
    /\ UNCHANGED <<m_keys, m_values, heap, deletes>>

\* a call of parse on a buffer made of the input items that are left
ParseBegin ==
    /\ pc = "idle"
    /\ calls < MaxCalls
    /\ \E n \in 0..fuel : \E f \in [1..n -> Items] :
          /\ ParseCall(Flatten(f, n))
          /\ fuel' = fuel - n
    /\ file' = NoFile
    /\ UNCHANGED trial
    /\ UNCHANGED JsonVars

\* the loop test holds: the body of the loop runs
InLoop == pc = "parsing" /\ CharAt(str, pos) # NUL

\* the cursor after line 150
AfterSpace == SkipWhitespace(str, pos, line)

\* the character the branches of the loop body test
StmtChar == CharAt(str, AfterSpace.pos)

\* INI_ERROR(ln, msg); return Error::kSyntax;
SyntaxError(p, ln, errline, msg) ==
    /\ err' = "kSyntax"
    /\ log' = Append(log, [line |-> errline, msg |-> msg])
    /\ pc' = "idle"
    /\ pos' = p
    /\ line' = ln

\* the loop body ends and the loop test is next
Continue(p, ln) ==
    /\ pos' = p
    /\ line' = ln
    /\ UNCHANGED <<err, log, pc>>

\* line 149, the test fails; line 265
LoopExit ==
    /\ pc = "parsing"
    /\ CharAt(str, pos) = NUL
    /\ err' = "kOk"
    /\ pc' = "idle"
    /\ UNCHANGED <<m_sections, m_keys, m_values, heap, deletes, str, pos, line,
                   log, ret, query, calls, fuel, declared, nameSeen>>
    /\ UNCHANGED <<file, trial>>
    /\ UNCHANGED JsonVars

\* lines 150-263 when only white space is left: no branch is taken
TrailingSpace ==
    /\ InLoop
    /\ StmtChar = NUL
    /\ Continue(AfterSpace.pos, AfterSpace.line)
    /\ UNCHANGED <<m_sections, m_keys, m_values, heap, deletes, str,
                   ret, query, calls, fuel, declared, nameSeen>>
    /\ UNCHANGED <<file, trial>>
    /\ UNCHANGED JsonVars

\* lines 151-153
Comment ==
    /\ InLoop
    /\ StmtChar = ";"
    /\ LET a == SkipLine(str, AfterSpace.pos, AfterSpace.line)
       IN  Continue(a.pos, a.line)
    /\ UNCHANGED <<m_sections, m_keys, m_values, heap, deletes, str,
                   ret, query, calls, fuel, declared, nameSeen>>
    /\ UNCHANGED <<file, trial>>
    /\ UNCHANGED JsonVars

\* lines 154-164
SectionHeader ==
    /\ InLoop
    /\ StmtChar = "["
    /\ LET beg     == AfterSpace.pos + 1
           errline == AfterSpace.line
           a       == AdvanceToNext(str, AfterSpace.pos, "]", AfterSpace.line)
       IN  IF ~a.found
           THEN /\ SyntaxError(a.pos, a.line, errline, "Unterminated section")
                /\ UNCHANGED <<m_sections, nameSeen>>
           ELSE /\ m_sections' =
                       Append(m_sections,
                              NewSection(StringHash(SubSeq(str, beg, a.pos - 1)),
                                         Len(m_keys)))
                /\ nameSeen' = FALSE
                /\ Continue(a.pos + 1, a.line)
    /\ UNCHANGED <<m_keys, m_values, heap, deletes, str, ret, query, calls, fuel,
                   declared>>
    /\ UNCHANGED <<file, trial>>
    /\ UNCHANGED JsonVars

\* lines 206-231: the number whose token is [beg, end)
ParseNumber(b, beg, end) ==
    LET l == strtol(b, beg)
        d == strtod(b, beg)
    IN  IF d = ZeroDouble /\ l # 0
        THEN [type |-> "kInt", value |-> IntValue(l)]
        ELSE IF l = 0 /\ d # ZeroDouble
        THEN [type |-> "kDouble", value |-> DoubleValue(d)]
        ELSE IF ContainsAny(b, beg, end, <<".", "e", "E", "n", "N">>)
        THEN [type |-> "kDouble", value |-> DoubleValue(d)]
        ELSE [type |-> "kInt", value |-> IntValue(l)]

\* lines 181-236: the value at the cursor.  status is "ok" when a value is
\* pushed, else the error; type is what is written to k.m_type, if anything;
\* text is the content of a string value.
ReadValue(b, p, ln) ==
    LET c == CharAt(b, p)
    IN  IF c = "\""
        THEN LET a == AdvanceToNext(b, p + 1, "\"", ln)
             IN  IF ~a.found
                 THEN [status |-> "Unterminated string", writes |-> TRUE,
                       type |-> "kString", value |-> StringValue(NullPtr),
                       text |-> <<>>, pos |-> a.pos, line |-> a.line]
                 ELSE [status |-> "ok", writes |-> TRUE,
                       type |-> "kString", value |-> StringValue(NullPtr),
                       text |-> SubSeq(b, p + 1, a.pos - 1),
                       pos |-> a.pos + 1, line |-> a.line]
        ELSE IF c = "t" \/ c = "f"
        THEN LET a == AdvanceToNextWhiteSpaceOrComma(b, p, ln)
             IN  [status |-> "ok", writes |-> TRUE,
                  type |-> "kBool", value |-> BoolValue(c = "t"),
                  text |-> <<>>, pos |-> a.pos, line |-> a.line]
        ELSE IF isdigit(c) \/ c = "-" \/ c = "+"
        THEN LET a == AdvanceToNextWhiteSpaceOrComma(b, p, ln)
                 n == ParseNumber(b, p, a.pos)
             IN  [status |-> "ok", writes |-> TRUE,
                  type |-> n.type, value |-> n.value,
                  text |-> <<>>, pos |-> a.pos, line |-> a.line]
        ELSE [status |-> "Invalid value", writes |-> FALSE,
              type |-> "kBool", value |-> BoolValue(FALSE),
              text |-> <<>>, pos |-> p, line |-> ln]

\* the cursor on the value that follows the '=' or ',' at p (lines 173-178)
ValueStart(b, p, ln) ==
    LET w == SkipWhitespace(b, p + 1, ln)
    IN  SkipComments(b, w.pos, w.line)

\* history: the value joins the values of the last name this call has read
Record(hist, v) ==
    IF hist = <<>> THEN hist
    ELSE [hist EXCEPT ![Len(hist)].vals = Append(@, v)]

\* the increment is lost
IncrementCount_Lost(k) == k

\* the increment goes to another member of the key
IncrementCount_WrongMember(k) == [k EXCEPT !.m_valueOffset = @ + 1]

\* line 242: ++k.m_count
IncrementCount(k) == [k EXCEPT !.m_count = @ + 1]

\* lines 165-242
ValueBranch ==
    /\ InLoop
    /\ StmtChar \in {"=", ","}
    /\ IF m_keys = <<>>
       THEN /\ SyntaxError(AfterSpace.pos, AfterSpace.line, AfterSpace.line,
                           "Unexpected '=' or ',' no property name was specified")
            /\ UNCHANGED <<m_keys, m_values, heap, declared>>
       ELSE \E s \in {ValueStart(str, AfterSpace.pos, AfterSpace.line)} :
            \E r \in {ReadValue(str, s.pos, s.line)} :
            LET ki == Len(m_keys)
                k  == m_keys[ki]
                t  == k.m_type
                errline == s.line
                ty == IF r.writes THEN r.type ELSE k.m_type
                v  == IF r.type = "kString"
                      THEN StringValue(Len(heap) + 1)
                      ELSE r.value
            IN  IF r.status # "ok"
                THEN /\ SyntaxError(r.pos, r.line, errline, r.status)
                     /\ m_keys' = [m_keys EXCEPT ![ki].m_type = ty]
                     /\ UNCHANGED <<m_values, heap, declared>>
                ELSE /\ m_values' = Append(m_values, v)
                     /\ heap' = IF r.type = "kString"
                                THEN Append(heap, [state |-> "live", data |-> r.text])
                                ELSE heap
                     /\ declared' = Record(declared, v)
                     /\ IF k.m_count > 0 /\ ty # t
                        THEN /\ SyntaxError(r.pos, r.line, errline,
                                  "Invalid array (arrays must be homogeneous)")
                             /\ m_keys' = [m_keys EXCEPT ![ki].m_type = ty]
                        ELSE /\ Continue(r.pos, r.line)
                             /\ m_keys' = [m_keys EXCEPT
                                    ![ki] = IncrementCount([k EXCEPT !.m_type = ty])]
    /\ UNCHANGED <<m_sections, deletes, str, ret, query, calls, fuel, nameSeen>>
    /\ UNCHANGED <<file, trial>>
    /\ UNCHANGED JsonVars

\* Key k; k.m_key = name; k.m_valueOffset = m_values.size(); k.m_count = 0;
\* m_type is not assigned: a read of it before the first value is parsed
\* yields any ValueType (see GetProperty)
NewKey(name, nvalues) ==
    [m_key |-> name, m_valueOffset |-> nvalues, m_count |-> 0,
     m_type |-> Indeterminate]

\* a test that rejects only a leading '0'
BadNameStart_ZeroOnly(c) == c = "0"

\* line 245: the token cannot be a property name
BadNameStart(c) == isdigit(c)

\* lines 243-263
NewData ==
    /\ InLoop
    /\ StmtChar \notin {";", "[", "=", ",", NUL}
    /\ IF BadNameStart(StmtChar)
       THEN /\ SyntaxError(AfterSpace.pos, AfterSpace.line, AfterSpace.line,
                           "Property names cannot begin with a number")
            /\ UNCHANGED <<m_sections, m_keys, declared, nameSeen>>
       ELSE LET beg == AfterSpace.pos
                a   == AdvanceToNextNonAlphanumeric(str, beg, AfterSpace.line)
            IN  IF ~a.found
                THEN /\ SyntaxError(a.pos, a.line, a.line, "Unexpected end of file")
                     /\ UNCHANGED <<m_sections, m_keys, declared, nameSeen>>
                ELSE /\ Len(m_keys) < MaxKeys
                     /\ m_keys' = Append(m_keys,
                                         NewKey(StringHash(SubSeq(str, beg, a.pos - 1)),
                                                Len(m_values)))
                     /\ m_sections' = [m_sections EXCEPT
                                          ![Len(m_sections)].m_count = @ + 1]
                     /\ declared' = Append(declared,
                                           [key |-> Len(m_keys),
                                            name |-> SubSeq(str, beg, a.pos - 1),
                                            offset |-> Len(m_values),
                                            vals |-> <<>>])
                     /\ nameSeen' = TRUE
                     /\ Continue(a.pos, a.line)
    /\ UNCHANGED <<m_values, heap, deletes, str, ret, query, calls, fuel>>
    /\ UNCHANGED <<file, trial>>
    /\ UNCHANGED JsonVars

----------------------------------------------------------------------------
(* IniFile::getProperty *)

\* a search that takes the offset of the section found but not its count
SearchRange_CountNotNarrowed(section) ==
    LET hits == {i \in 1..Len(m_sections) : m_sections[i].m_name = section}
    IN  IF section # kInvalidHash /\ hits # {}
        THEN LET i == CHOOSE h \in hits : \A g \in hits : h <= g
             IN  [koff |-> m_sections[i].m_keyOffset, kcount |-> Len(m_keys)]
        ELSE [koff |-> 0, kcount |-> Len(m_keys)]

\* lines 279-289: the key range that is searched for _section
SearchRange(section) ==
    LET hits == {i \in 1..Len(m_sections) : m_sections[i].m_name = section}
    IN  IF section # kInvalidHash /\ hits # {}
        THEN LET i == CHOOSE h \in hits : \A g \in hits : h <= g
             IN  [koff |-> m_sections[i].m_keyOffset, kcount |-> m_sections[i].m_count]
        ELSE [koff |-> 0, kcount |-> Len(m_keys)]

\* a scan that keeps the last key of the range named key
FindKey_Last(key, koff, kcount) ==
    LET hits == {i \in koff..(koff + kcount - 1) : m_keys[i + 1].m_key = key}
    IN  IF hits = {} THEN 0 - 1
        ELSE CHOOSE h \in hits : \A g \in hits : h >= g

\* lines 290-297: the first key of the range named key, or -1
FindKey(key, koff, kcount) ==
    LET hits == {i \in koff..(koff + kcount - 1) : m_keys[i + 1].m_key = key}
    IN  IF hits = {} THEN 0 - 1
        ELSE CHOOSE h \in hits : \A g \in hits : h <= g

\* lines 268-299, for a key name of keys and a section name of secs or no
\* section; the query records the arguments and the key matched
GetPropertyOf(keys, secs) ==
    /\ pc = "idle"
    /\ \E kname \in keys : \E sname \in secs \cup {<<>>} :
          LET _key     == StringHash(kname)
              _section == IF sname # <<>> THEN StringHash(sname) ELSE kInvalidHash
              r        == SearchRange(_section)
              i        == FindKey(_key, r.koff, r.kcount)
          IN  /\ query' = [key |-> kname, section |-> sname,
                           scoped |-> sname # <<>>, asked |-> TRUE, match |-> i]
              /\ IF i < 0
                 THEN ret' = EmptyProperty
                 ELSE \E ty \in ValueTypes :
                         /\ m_keys[i + 1].m_type # Indeterminate
                               => ty = m_keys[i + 1].m_type
                         /\ ret' = [m_type |-> ty,
                                    m_count |-> m_keys[i + 1].m_count,
                                    m_first |-> m_keys[i + 1].m_valueOffset + 1]
    /\ str' = <<>>
    /\ pos' = 1
    /\ line' = 1
    /\ nameSeen' = FALSE
    /\ UNCHANGED <<m_sections, m_keys, m_values, heap, deletes, pc, err, log,
                   calls, fuel, declared>>
    /\ UNCHANGED <<file, trial>>
    /\ UNCHANGED JsonVars

GetProperty == GetPropertyOf(QueryKeys, QuerySections)

----------------------------------------------------------------------------
(* IniFile::~IniFile *)

\* lines 98-100: the delete[] calls for the values of key ki, from index j on
RECURSIVE KeyDeletes(_, _)
KeyDeletes(ki, j) ==
    LET k == m_keys[ki]
    IN  IF j < k.m_valueOffset + k.m_count
        THEN <<[index |-> j, ptr |-> StringPtr(m_values[j + 1])]>>
                \o KeyDeletes(ki, j + 1)
        ELSE <<>>

\* lines 93-101: the delete[] calls of the destructor, from key ki on
RECURSIVE AllDeletes(_)
AllDeletes(ki) ==
    IF ki > Len(m_keys) THEN <<>>
    ELSE (IF m_keys[ki].m_type # "kString"
          THEN <<>>
          ELSE KeyDeletes(ki, m_keys[ki].m_valueOffset)) \o AllDeletes(ki + 1)

TimesDeleted(ds, p) == Cardinality({i \in 1..Len(ds) : ds[i].ptr = p})

\* delete[] of a pointer that new[] did not return, or of one already deleted
Undefined(ds) ==
    \/ \E i \in 1..Len(ds) : ds[i].ptr = WildPtr
    \/ \E p \in 1..Len(heap) : TimesDeleted(ds, p) > 1

Destroy ==
    /\ pc = "idle"
    /\ LET ds == AllDeletes(1)
       IN  /\ deletes' = ds
           /\ heap' = [p \in 1..Len(heap) |->
                          IF TimesDeleted(ds, p) > 0
                          THEN [heap[p] EXCEPT !.state = "freed"]
                          ELSE heap[p]]
           /\ pc' \in IF Undefined(ds) THEN {"destroyed", "crashed"}
                                       ELSE {"destroyed"}
    /\ str' = <<>>
    /\ pos' = 1
    /\ line' = 1
    /\ declared' = <<>>
    /\ nameSeen' = FALSE
    /\ UNCHANGED <<m_sections, m_keys, m_values, err, log, ret, query, calls, fuel>>
    /\ UNCHANGED <<file, trial>>
    /\ UNCHANGED JsonVars

----------------------------------------------------------------------------

Next ==
    \/ ParseBegin
    \/ LoopExit
    \/ TrailingSpace
    \/ Comment
    \/ SectionHeader
    \/ ValueBranch
    \/ NewData
    \/ GetProperty
    \/ Destroy

Spec == Init /\ [][Next]_vars

----------------------------------------------------------------------------
(* Value tokens: one parse call on the buffer "a=" followed by up to       *)
(* MaxPieces pieces of number, bool and separator text.                    *)

MaxPieces == 3

Pieces ==
    { <<"0">>, <<"1">>, <<"8">>, <<".">>, <<"e">>, <<"E">>, <<"-">>, <<"+">>,
      <<"n">>, <<"N">>, <<"i", "n", "f">>, <<"n", "a", "n">>,
      <<"t">>, <<"f">>, <<",">>, <<" ">> }

ValueParseBegin ==
    /\ pc = "idle"
    /\ calls = 0
    /\ \E n \in 0..MaxPieces : \E f \in [1..n -> Pieces] :
          ParseCall(<<"a", "=">> \o Flatten(f, n))
    /\ UNCHANGED <<fuel, file, trial>>
    /\ UNCHANGED JsonVars

ValueNext ==
    \/ ValueParseBegin
    \/ LoopExit
    \/ TrailingSpace
    \/ ValueBranch
    \/ NewData

ValueSpec == Init /\ [][ValueNext]_vars

----------------------------------------------------------------------------
(* Two calls and one: parse(b1) that returns Ok and then parse(b2) on one  *)
(* store, the outcome is recorded, and then parse of b1, a newline and b2  *)
(* on a new store.                                                         *)

JoinItems ==
    { <<"a">>, <<"b", "=", "1">>, <<"\n">>, <<"[", "s", "]">>, <<",", "2">>,
      <<",", "t">>, <<";">>, <<"=", "\"", "x", "\"">> }

TrialFirst ==
    /\ pc = "idle"
    /\ trial.stage = 0
    /\ calls = 0
    /\ \E n \in 0..fuel : \E f \in [1..n -> JoinItems] :
          /\ ParseCall(Flatten(f, n))
          /\ fuel' = fuel - n
          /\ trial' = [trial EXCEPT !.stage = 1, !.b1 = Flatten(f, n)]
    /\ UNCHANGED file
    /\ UNCHANGED JsonVars

TrialSecond ==
    /\ pc = "idle"
    /\ trial.stage = 1
    /\ err = "kOk"
    /\ \E n \in 0..fuel : \E f \in [1..n -> JoinItems] :
          /\ ParseCall(Flatten(f, n))
          /\ fuel' = fuel - n
          /\ trial' = [trial EXCEPT !.stage = 2, !.b2 = Flatten(f, n)]
    /\ UNCHANGED file
    /\ UNCHANGED JsonVars

\* the outcome of the two calls is recorded and a new, empty store is made
TrialNewStore ==
    /\ pc = "idle"
    /\ trial.stage = 2
    /\ trial' = [trial EXCEPT !.stage = 3, !.err = err,
                               !.sections = m_sections, !.keys = m_keys,
                               !.values = m_values, !.heap = heap]
    /\ m_sections' = <<>>
    /\ m_keys' = <<>>
    /\ m_values' = <<>>
    /\ heap' = <<>>
    /\ calls' = 0
    /\ err' = "none"
    /\ str' = <<>>
    /\ pos' = 1
    /\ line' = 1
    /\ declared' = <<>>
    /\ nameSeen' = FALSE
    /\ UNCHANGED <<deletes, pc, log, ret, query, fuel, file>>
    /\ UNCHANGED JsonVars

TrialJoined ==
    /\ pc = "idle"
    /\ trial.stage = 3
    /\ ParseCall(trial.b1 \o <<"\n">> \o trial.b2)
    /\ trial' = [trial EXCEPT !.stage = 4]
    /\ UNCHANGED <<fuel, file>>
    /\ UNCHANGED JsonVars

JoinNext ==
    \/ TrialFirst
    \/ TrialSecond
    \/ TrialNewStore
    \/ TrialJoined
    \/ LoopExit
    \/ TrailingSpace
    \/ Comment
    \/ SectionHeader
    \/ ValueBranch
    \/ NewData

JoinSpec == Init /\ [][JoinNext]_vars

----------------------------------------------------------------------------
(* IniFile::load.  The file is the environment of the call: it opens or    *)
(* not, tellg yields its size or -1, and the read delivers all of it, a    *)
(* part of it (eofbit and failbit are set) or fails (badbit is set).       *)

\* greatest number of characters a short read falls short by
MaxShort == 1

\* what a character of new char[flen + 1] can hold when nothing was read
\* into it
GarbageChars == {NUL, "1", "="}

\* the C string in buffer d: the characters before the first null
CString(d) ==
    LET nuls == {i \in 1..Len(d) : d[i] = NUL}
    IN  IF nuls = {} THEN d
        ELSE SubSeq(d, 1, (CHOOSE i \in nuls : \A j \in nuls : i <= j) - 1)

\* goto IniFile_load_fail, or the early return of line 109
LoadReturn(e) ==
    /\ err' = e
    /\ pc' = "idle"
    /\ str' = <<>>
    /\ pos' = 1
    /\ line' = 1
    /\ declared' = <<>>
    /\ nameSeen' = FALSE
    /\ UNCHANGED <<m_sections, m_keys, m_values, heap, deletes, log, ret,
                   query, calls>>

\* PLR_VERIFY fails in a build that has assertions
LoadAbort ==
    /\ pc' = "crashed"
    /\ UNCHANGED <<m_sections, m_keys, m_values, heap, deletes, str, pos, line,
                   err, log, ret, query, calls, declared, nameSeen>>

\* lines 104-137
Load ==
    /\ pc = "idle"
    /\ calls < MaxCalls
    /\ UNCHANGED trial
    /\ \E n \in 0..fuel : \E f \in [1..n -> Items] :
       \E opens \in BOOLEAN : \E known \in BOOLEAN :
       \E read \in {"none", "all", "short", "bad"} :
          LET content == Flatten(f, n)
              flen    == IF known THEN Len(content) ELSE 0 - 1
          IN  /\ ~opens => (n = 0 /\ ~known)
              /\ ~known => n = 0
              /\ (read = "none") <=> (~opens \/ flen <= 0)
              /\ fuel' = fuel - n
              /\ file' = [active |-> TRUE, opens |-> opens, flen |-> flen,
                          content |-> content, read |-> read,
                          store |-> <<m_sections, m_keys, m_values>>]
              /\ IF ~opens THEN LoadReturn("kFileNotFound")
                 ELSE IF flen <= 0 THEN LoadReturn("kFileIo")
                 ELSE IF read = "all" THEN ParseCall(content)
                 ELSE IF read = "bad"
                 THEN LoadReturn("kFileIo") \/ LoadAbort
                 ELSE \/ LoadAbort
                      \/ \E missing \in 1..MaxShort :
                         \E tail \in [1..missing -> GarbageChars] :
                            /\ missing <= flen
                            /\ ParseCall(CString(SubSeq(content, 1, flen - missing)
                                                    \o tail))
    /\ UNCHANGED JsonVars

LoadNext ==
    \/ Load
    \/ LoopExit
    \/ TrailingSpace
    \/ Comment
    \/ SectionHeader
    \/ ValueBranch
    \/ NewData

LoadSpec == Init /\ [][LoadNext]_vars

----------------------------------------------------------------------------
(* Sections: one parse call on the header [s] followed by up to MaxProps   *)
(* property lines, or on the [graphics] buffer, and then lookups.          *)

MaxProps == 3

PropItems ==
    { <<"b", "=", "1", "\n">>, <<",", "2", "\n">>, <<"a", "=", "t", "\n">>,
      <<"a", "=", "\"", "x", "\"", "\n">>, <<"a", "\n">>,
      <<"b", "=", "0", ".", "5", "\n">> }

Graphics ==
    <<"[", "g", "r", "a", "p", "h", "i", "c", "s", "]", "\n">>
    \o <<"w", "i", "d", "t", "h", " ", "=", " ", "1", "9", "2", "0", "\n">>
    \o <<"h", "e", "i", "g", "h", "t", " ", "=", " ", "1", "0", "8", "0", "\n">>
    \o <<"f", "u", "l", "l", "s", "c", "r", "e", "e", "n", " ", "=", " ", "t", "r", "u", "e", "\n">>
    \o <<"t", "i", "t", "l", "e", " ", "=", " ", "\"", "M", "y", " ", "G", "a", "m", "e", "\"", "\n">>
    \o <<"s", "c", "a", "l", "e", " ", "=", " ", "1", ".", "5", ",", " ", "2", ".", "0", ",", " ", "3", ".", "0", "\n">>

GraphicsKeys ==
    { <<"w", "i", "d", "t", "h">>, <<"h", "e", "i", "g", "h", "t">>,
      <<"f", "u", "l", "l", "s", "c", "r", "e", "e", "n">>,
      <<"t", "i", "t", "l", "e">>, <<"s", "c", "a", "l", "e">> }

GraphicsSection == <<"g", "r", "a", "p", "h", "i", "c", "s">>

SectionParseBegin ==
    /\ pc = "idle"
    /\ calls = 0
    /\ \/ \E n \in 0..MaxProps : \E f \in [1..n -> PropItems] :
             ParseCall(<<"[", "s", "]", "\n">> \o Flatten(f, n))
       \/ ParseCall(Graphics)
    /\ UNCHANGED <<fuel, file, trial>>
    /\ UNCHANGED JsonVars

SectionGetProperty ==
    GetPropertyOf(QueryKeys \cup GraphicsKeys, {<<"s">>, GraphicsSection})

SectionNext ==
    \/ SectionParseBegin
    \/ LoopExit
    \/ TrailingSpace
    \/ SectionHeader
    \/ ValueBranch
    \/ NewData
    \/ SectionGetProperty

SectionSpec == Init /\ [][SectionNext]_vars

----------------------------------------------------------------------------
(* Json: the calls.  A failed APT_ASSERT stops the program in a build that *)
(* has assertions and has no effect in one that has not; a read through a  *)
(* pointer that designates no value stops the program or yields a value of *)
(* some type that the call does not accept.                                *)

\* cap on the values of the document
MaxNodes == 4
\* cap on the depth of m_stack
MaxDepth == 3
\* cap on the iteration counter of a stack entry
MaxIter == 3

Names == {"a", "b"}

\* _name == nullptr
NoName == ""

\* documents read from a file
Docs ==
    { \* { "a": {}, "b": [1] }
      << [type |-> "Object", names |-> <<"a", "b">>, kids |-> <<2, 3>>],
         JsonValue("Object"),
         [type |-> "Array", names |-> <<>>, kids |-> <<4>>],
         JsonValue("Number") >>,
      \* { "a": 1, "b": [] }
      << [type |-> "Object", names |-> <<"a", "b">>, kids |-> <<2, 3>>],
         JsonValue("Number"), JsonValue("Array") >>,
      \* { "b": { "a": 1 } }
      << [type |-> "Object", names |-> <<"b">>, kids |-> <<2>>],
         [type |-> "Object", names |-> <<"a">>, kids |-> <<3>>],
         JsonValue("Number") >> }

\* Impl::top(), Impl::topIter()
Top == m_stack[Len(m_stack)].first

TopIter == m_stack[Len(m_stack)].second

\* Value::Size(), Value::MemberCount()
Size(c) == Len(dom[c].kids)

\* FindMember: the 1-based position of the first member of c named name, or 0
FindMember(c, name) ==
    LET hits == {i \in 1..Len(dom[c].names) : dom[c].names[i] = name}
    IN  IF hits = {} THEN 0 ELSE CHOOSE i \in hits : \A j \in hits : i <= j

\* the call is recorded
Called(op, name, result) ==
    jlast' = [op |-> op, name |-> name, result |-> result, tick |-> 1 - jlast.tick]

\* the program stops in the call
Crash(op, name) ==
    /\ jpc' = "crashed"
    /\ Called(op, name, FALSE)
    /\ UNCHANGED <<dom, m_value, m_stack>>

\* Impl::push(v), lines 51-55
Push(v) ==
    /\ Len(m_stack) < MaxDepth
    /\ m_stack' = Append(m_stack, [first |-> v, second |-> 0])

\* Impl::pop(), lines 56-60
Pop == m_stack' = SubSeq(m_stack, 1, Len(m_stack) - 1)

\* Json::Read on a new Json, lines 87-95
JsonRead ==
    /\ jpc = "ready"
    /\ jlast = NoCall
    /\ \E d \in Docs : dom' = d
    /\ Called("Read", NoName, TRUE)
    /\ UNCHANGED <<m_value, m_stack, jpc>>
    /\ UNCHANGED IniVars

\* Json::find, lines 148-162
JsonFind ==
    /\ jpc = "ready"
    /\ m_stack # <<>>
    /\ \E name \in Names :
          LET i == FindMember(Top, name)
          IN  IF dom[Top].type = "Object" /\ i > 0
              THEN /\ m_value' = Ptr(dom[Top].kids[i])
                   /\ Called("find", name, TRUE)
              ELSE /\ UNCHANGED m_value
                   /\ Called("find", name, FALSE)
    /\ UNCHANGED <<dom, m_stack, jpc>>
    /\ UNCHANGED IniVars

\* topIter()++, lines 169 and 174
NextIter(i, n) == i + 1

\* Json::next, lines 164-180: top is an array or an object
JsonNext ==
    /\ jpc = "ready"
    /\ m_stack # <<>>
    /\ TopIter < MaxIter
    /\ LET i == TopIter
           n == Size(Top)
       IN  /\ m_stack' = [m_stack EXCEPT ![Len(m_stack)].second = NextIter(i, n)]
           /\ m_value' = IF i < n THEN Ptr(dom[Top].kids[i + 1]) ELSE PastEnd(Top, i)
           /\ Called("next", NoName, i # n)
    /\ UNCHANGED <<dom, jpc>>
    /\ UNCHANGED IniVars

\* Json::enterObject and Json::enterArray, lines 330-338 and 347-355
Enter(op, type) ==
    /\ jpc = "ready"
    /\ m_stack # <<>>
    /\ IF m_value.node = 0
       THEN \/ Crash(op, NoName)
            \/ /\ Called(op, NoName, FALSE)
               /\ UNCHANGED <<dom, m_value, m_stack, jpc>>
       ELSE IF dom[m_value.node].type = type
       THEN \/ /\ Top = m_value.node
               /\ Crash(op, NoName)
            \/ /\ Push(m_value.node)
               /\ Called(op, NoName, TRUE)
               /\ UNCHANGED <<dom, m_value, jpc>>
       ELSE \/ Crash(op, NoName)
            \/ /\ Called(op, NoName, FALSE)
               /\ UNCHANGED <<dom, m_value, m_stack, jpc>>
    /\ UNCHANGED IniVars

EnterObject == Enter("enterObject", "Object")

EnterArray == Enter("enterArray", "Array")

\* Json::leaveObject and Json::leaveArray, lines 340-345 and 357-362
Leave(op, type) ==
    /\ jpc = "ready"
    /\ m_stack # <<>>
    /\ \/ /\ dom[Top].type # type
          /\ Crash(op, NoName)
       \/ /\ m_value' = Ptr(Top)
          /\ Pop
          /\ Called(op, NoName, TRUE)
          /\ UNCHANGED <<dom, jpc>>
    /\ UNCHANGED IniVars

LeaveObject == Leave("leaveObject", "Object")

LeaveArray == Leave("leaveArray", "Array")

\* PushBack or AddMember of a new value of the given type to the top of the
\* stack: the document after it
WithNew(type, name) ==
    [i \in 1..(Len(dom) + 1) |->
        IF i = Len(dom) + 1 THEN JsonValue(type)
        ELSE IF i = Top
        THEN [dom[i] EXCEPT !.kids = Append(@, Len(dom) + 1),
                            !.names = IF dom[i].type = "Object"
                                      THEN Append(@, name) ELSE @]
        ELSE dom[i]]

\* lines 379-399 and 409-429 with the enterObject or enterArray that
\* follows: the member or element is created and entered
CreateAndEnter(op, type, name) ==
    IF dom[Top].type # "Array" /\ name = NoName
    THEN Crash(op, name)
    ELSE /\ Len(dom) < MaxNodes
         /\ dom' = WithNew(type, name)
         /\ m_value' = Ptr(Len(dom) + 1)
         /\ Push(Len(dom) + 1)
         /\ Called(op, name, TRUE)
         /\ UNCHANGED jpc

\* the member name of the top of the stack exists: _name && find(_name)
Found(name) ==
    name # NoName /\ dom[Top].type = "Object" /\ FindMember(Top, name) > 0

\* lines 374-378: the member exists; the call returns
BeginObjectFound(name) ==
    LET v == dom[Top].kids[FindMember(Top, name)]
    IN  \/ /\ dom[v].type # "Object"
           /\ Crash("beginObject", name)
        \/ /\ m_value' = Ptr(v)
           /\ Called("beginObject", name, TRUE)
           /\ UNCHANGED <<dom, m_stack, jpc>>

\* Json::beginObject, lines 372-401
BeginObject ==
    /\ jpc = "ready"
    /\ m_stack # <<>>
    /\ \E name \in Names \cup {NoName} :
          IF Found(name)
          THEN BeginObjectFound(name)
          ELSE CreateAndEnter("beginObject", "Object", name)
    /\ UNCHANGED IniVars

\* lines 405-408 and 430: the member exists; enterArray follows
BeginArrayFound(name) ==
    LET v == dom[Top].kids[FindMember(Top, name)]
    IN  IF dom[v].type = "Array"
        THEN /\ m_value' = Ptr(v)
             /\ Push(v)
             /\ Called("beginArray", name, TRUE)
             /\ UNCHANGED <<dom, jpc>>
        ELSE \/ Crash("beginArray", name)
             \/ /\ m_value' = Ptr(v)
                /\ Called("beginArray", name, FALSE)
                /\ UNCHANGED <<dom, m_stack, jpc>>

\* Json::beginArray, lines 403-431
BeginArray ==
    /\ jpc = "ready"
    /\ m_stack # <<>>
    /\ \E name \in Names \cup {NoName} :
          IF Found(name)
          THEN BeginArrayFound(name)
          ELSE CreateAndEnter("beginArray", "Array", name)
    /\ UNCHANGED IniVars

\* Json::pushValue of a number, lines 665-672
PushValue ==
    /\ jpc = "ready"
    /\ m_stack # <<>>
    /\ IF dom[Top].type # "Array"
       THEN Crash("pushValue", NoName)
       ELSE /\ Len(dom) < MaxNodes
            /\ dom' = WithNew("Number", NoName)
            /\ m_value' = Ptr(Len(dom) + 1)
            /\ Called("pushValue", NoName, TRUE)
            /\ UNCHANGED <<m_stack, jpc>>
    /\ UNCHANGED IniVars

\* a call of find, next, an enter, a leave, a begin or pushValue when the
\* stack is empty: Impl::top() on an empty vector, lines 61-65
TopOfEmptyStack ==
    /\ jpc = "ready"
    /\ m_stack = <<>>
    /\ jpc' = "crashed"
    /\ UNCHANGED <<dom, m_value, m_stack, jlast>>
    /\ UNCHANGED IniVars

JsonStep ==
    \/ JsonRead
    \/ JsonFind
    \/ JsonNext
    \/ EnterObject
    \/ EnterArray
    \/ LeaveObject
    \/ LeaveArray
    \/ BeginObject
    \/ BeginArray
    \/ PushValue
    \/ TopOfEmptyStack

JsonSpec == Init /\ [][JsonStep]_vars

TypeOK ==
    /\ pc \in {"idle", "parsing", "destroyed", "crashed"}
    /\ err \in {"none", "kOk", "kSyntax", "kFileNotFound", "kFileIo"}
    /\ pos \in 1..(Len(str) + 1)
    /\ fuel \in 0..MaxItems
    /\ calls \in 0..MaxCalls

----------------------------------------------------------------------------
(* Helpers of the properties *)

\* the character c occurs in b at index p or later
HasLater(b, p, c) == \E i \in p..Len(b) : b[i] = c

LastKey == m_keys[Len(m_keys)]

\* 0-based indices of the values of key k
ValueRange(k) == k.m_valueOffset .. (k.m_valueOffset + k.m_count - 1)

\* 0-based indices of the keys of section sec
KeyRange(sec) == sec.m_keyOffset .. (sec.m_keyOffset + sec.m_count - 1)

Logged(msg) == \E i \in 1..Len(log) : log[i].msg = msg

\* the index after the token that starts at p: the first white space, comma
\* or terminating null at p or later
TokenEnd(b, p) ==
    CHOOSE i \in p..(Len(b) + 1) :
        /\ CharAt(b, i) \in {NUL, ",", " ", "\t", "\n", "\r"}
        /\ \A j \in p..(i - 1) : CharAt(b, j) \notin {NUL, ",", " ", "\t", "\n", "\r"}

\* the iteration reads a value for the last key, and the value starts at
\* ValueAt
ReadsValue == InLoop /\ StmtChar \in {"=", ","} /\ m_keys # <<>>

ValueAt == ValueStart(str, AfterSpace.pos, AfterSpace.line).pos

----------------------------------------------------------------------------
(* C1: every iteration of the main loop of parse either advances the       *)
(* cursor by at least one character or returns, so that parse terminates   *)
(* on every buffer.                                                        *)
C1_IterationAdvances ==
    [][InLoop => (pos' > pos \/ pc' # "parsing")]_vars

(* C2: getProperty with a section name matches only a key inside the key   *)
(* range of a section of that name, and returns the zero-count view when   *)
(* no section has that name.                                               *)
C2_SectionScoped ==
    (query.asked /\ query.scoped) =>
        LET named == {i \in 1..Len(m_sections) :
                         m_sections[i].m_name = StringHash(query.section)}
        IN  /\ named = {} => ret.m_count = 0
            /\ ret.m_count > 0 =>
                  \E i \in named : query.match \in KeyRange(m_sections[i])

(* C3: destroying the store releases every string buffer allocated during  *)
(* parsing exactly once and applies no release to a value that is not an   *)
(* owned string.                                                           *)
C3_ReleaseExactlyOnce ==
    pc \in {"destroyed", "crashed"} =>
        /\ \A p \in 1..Len(heap) : TimesDeleted(deletes, p) = 1
        /\ \A i \in 1..Len(deletes) :
              m_values[deletes[i].index + 1].kind = "kString"

(* C4: the recorded type of each key equals the kind of every value in its *)
(* range [valueOffset, valueOffset + count).                               *)
C4_KeysHomogeneous ==
    \A ki \in 1..Len(m_keys) :
        \A j \in ValueRange(m_keys[ki]) :
            m_values[j + 1].kind = m_keys[ki].m_type

(* C5: the sections partition the key list into contiguous ranges in       *)
(* declaration order: section 0 starts at key 0, each later section starts *)
(* where the previous one ends, and the last one ends at the length of the *)
(* key list.                                                               *)
C5_SectionsPartition ==
    IF m_sections = <<>>
    THEN m_keys = <<>>
    ELSE /\ m_sections[1].m_keyOffset = 0
         /\ \A i \in 2..Len(m_sections) :
               m_sections[i].m_keyOffset =
                   m_sections[i - 1].m_keyOffset + m_sections[i - 1].m_count
         /\ LET last == m_sections[Len(m_sections)]
            IN  last.m_keyOffset + last.m_count = Len(m_keys)

\* a failed parse has left two sections, each with keys before or in it
C5_Witness ==
    /\ pc = "idle"
    /\ err = "kSyntax"
    /\ Len(m_sections) >= 2
    /\ m_sections[1].m_count >= 1
    /\ m_sections[2].m_keyOffset >= 1

(* C6: a value parsed for a key that already has a value, and whose type   *)
(* differs from the type of the earlier values of the key, makes parse     *)
(* return Syntax without incrementing the count of the key.                *)
C6_MismatchIsSyntax ==
    [][(/\ InLoop
        /\ StmtChar \in {"=", ","}
        /\ m_keys # <<>>
        /\ LastKey.m_count > 0
        /\ \E s \in {ValueStart(str, AfterSpace.pos, AfterSpace.line)} :
           \E r \in {ReadValue(str, s.pos, s.line)} :
              /\ r.status = "ok"
              /\ \E j \in ValueRange(LastKey) : m_values[j + 1].kind # r.type)
       => (/\ err' = "kSyntax"
           /\ m_keys'[Len(m_keys)].m_count = LastKey.m_count)]_vars

(* C7: a '=' or ',' at statement position when the call has read no        *)
(* property name since it began or since the last section header yields    *)
(* Syntax, and no value is attached to a key already in the store.         *)
C7_NoNameIsSyntax ==
    [][(InLoop /\ StmtChar \in {"=", ","} /\ ~nameSeen)
       => (err' = "kSyntax" /\ m_keys' = m_keys /\ m_values' = m_values)]_vars

(* C8: a token at statement position that begins with a digit makes parse  *)
(* return Syntax at that point: no section, key or value is appended for   *)
(* it or for the text after it.                                            *)
C8_DigitNameIsSyntax ==
    [][(InLoop /\ StmtChar \in Digits)
       => (/\ err' = "kSyntax"
           /\ pc' = "idle"
           /\ UNCHANGED <<m_sections, m_keys, m_values>>)]_vars

\* a parse that had read a key and a value stopped at a digit
C8_Witness ==
    /\ pc = "idle"
    /\ err = "kSyntax"
    /\ CharAt(str, pos) \in Digits
    /\ log # <<>>
    /\ log[Len(log)].msg = "Property names cannot begin with a number"
    /\ m_keys # <<>>
    /\ m_values # <<>>

(* C9: a '[' with no later ']' and a value-opening '"' with no later '"'   *)
(* each make parse return Syntax; no section is appended for the header    *)
(* and no value for the string.                                            *)
C9_UnterminatedIsSyntax ==
    [][/\ (InLoop /\ StmtChar = "[" /\ ~HasLater(str, AfterSpace.pos, "]"))
          => (err' = "kSyntax" /\ pc' = "idle" /\ m_sections' = m_sections)
       /\ (/\ InLoop
           /\ StmtChar \in {"=", ","}
           /\ \E s \in {ValueStart(str, AfterSpace.pos, AfterSpace.line)} :
                 /\ CharAt(str, s.pos) = "\""
                 /\ ~HasLater(str, s.pos + 1, "\""))
          => (err' = "kSyntax" /\ pc' = "idle" /\ m_values' = m_values)]_vars

\* both kinds of unterminated token have been met, the string after a value
C9_Witness ==
    /\ pc = "idle"
    /\ err = "kSyntax"
    /\ Logged("Unterminated section")
    /\ Logged("Unterminated string")
    /\ m_values # <<>>

(* C10: after a successful parse, a property name the call read, followed  *)
(* by n >= 1 values of one type, has count n, that type, and the n values  *)
(* in text order at value indices valueOffset .. valueOffset + n - 1,      *)
(* where valueOffset is the length of the value list when the name was     *)
(* read.                                                                   *)
C10_ArrayRecorded ==
    (pc = "idle" /\ err = "kOk") =>
        \A d \in 1..Len(declared) :
            LET h == declared[d]
                n == Len(h.vals)
                k == m_keys[h.key + 1]
            IN  (n >= 1 /\ \A i \in 1..n : h.vals[i].kind = h.vals[1].kind) =>
                    /\ k.m_key = StringHash(h.name)
                    /\ k.m_count = n
                    /\ k.m_type = h.vals[1].kind
                    /\ k.m_valueOffset = h.offset
                    /\ \A i \in 1..n : m_values[k.m_valueOffset + i] = h.vals[i]

\* a successful parse has read a name with two different values of one type
C10_Witness ==
    /\ pc = "idle"
    /\ err = "kOk"
    /\ \E d \in 1..Len(declared) :
          /\ Len(declared[d].vals) >= 2
          /\ declared[d].vals[1] # declared[d].vals[2]
          /\ declared[d].vals[1].kind = declared[d].vals[2].kind

C12_BoolToken ==
    [][(ReadsValue /\ CharAt(str, ValueAt) \in {"t", "f"})
        => /\ m_values' = Append(m_values, BoolValue(CharAt(str, ValueAt) = "t"))
           /\ m_keys'[Len(m_keys)].m_type = "kBool"
           /\ pos' = TokenEnd(str, ValueAt)]_vars

\* a token of several characters that starts with 't' was stored as true
C12_Witness ==
    /\ Len(m_values) = 1
    /\ m_values[1] = BoolValue(TRUE)
    /\ CharAt(str, 3) = "t"
    /\ pos = TokenEnd(str, 3)
    /\ pos > 4

\* the hash getProperty receives for a section argument (<<>>: none given)
SectionArg(sname) == IF sname # <<>> THEN StringHash(sname) ELSE kInvalidHash

(* C13: the key range getProperty searches lies inside the key list, and   *)
(* when no key of that range has the name asked for, the view returned has *)
(* count 0 and a null first-value reference.                               *)
C13_MissIsEmpty ==
    /\ \A sname \in QuerySections \cup {<<>>} :
          LET r == SearchRange(SectionArg(sname))
          IN  r.koff >= 0 /\ r.kcount >= 0 /\ r.koff + r.kcount <= Len(m_keys)
    /\ query.asked =>
          LET r == SearchRange(SectionArg(query.section))
          IN  (\A i \in r.koff..(r.koff + r.kcount - 1) :
                   m_keys[i + 1].m_key # StringHash(query.key))
              => (ret.m_count = 0 /\ ret.m_first = NullPtr)

\* a lookup in a section that has keys, none of them with the name asked for
C13_Witness ==
    /\ query.asked
    /\ query.scoped
    /\ SearchRange(SectionArg(query.section)).kcount > 0
    /\ SearchRange(SectionArg(query.section)).koff > 0
    /\ query.match < 0
    /\ ret = EmptyProperty

\* the store holds one parse call that returned Ok, of a buffer whose first
\* statement is the only header of the section asked for
OpensWithSection ==
    /\ query.asked /\ query.scoped
    /\ calls = 1 /\ err = "kOk"
    /\ Len(m_sections) >= 2
    /\ m_sections[2].m_name = StringHash(query.section)
    /\ m_sections[2].m_keyOffset = 0
    /\ \A i \in 1..Len(m_sections) :
          m_sections[i].m_name = StringHash(query.section) => i = 2

\* the view returned shows the values that were read for declaration h
ShowsDeclared(h) ==
    /\ ret.m_count = Len(h.vals)
    /\ ret.m_count > 0 => ret.m_type = h.vals[1].kind
    /\ \A j \in 1..Len(h.vals) :
          /\ ret.m_first + j - 1 \in 1..Len(m_values)
          /\ m_values[ret.m_first + j - 1] = h.vals[j]

\* the view returned for a key of the [graphics] buffer
GraphicsScenario ==
    (OpensWithSection /\ query.section = GraphicsSection) =>
        /\ m_sections[2].m_count = 5
        /\ query.key = <<"w", "i", "d", "t", "h">> =>
              /\ ret.m_type = "kInt" /\ ret.m_count = 1
              /\ m_values[ret.m_first] = IntValue(1920)
        /\ query.key = <<"h", "e", "i", "g", "h", "t">> =>
              /\ ret.m_type = "kInt" /\ ret.m_count = 1
              /\ m_values[ret.m_first] = IntValue(1080)
        /\ query.key = <<"f", "u", "l", "l", "s", "c", "r", "e", "e", "n">> =>
              /\ ret.m_type = "kBool" /\ ret.m_count = 1
              /\ m_values[ret.m_first] = BoolValue(TRUE)
        /\ query.key = <<"t", "i", "t", "l", "e">> =>
              /\ ret.m_type = "kString" /\ ret.m_count = 1
              /\ m_values[ret.m_first].kind = "kString"
              /\ heap[m_values[ret.m_first].m_string].data
                    = <<"M", "y", " ", "G", "a", "m", "e">>
        /\ query.key = <<"s", "c", "a", "l", "e">> =>
              /\ ret.m_type = "kDouble" /\ ret.m_count = 3
              /\ m_values[ret.m_first] = DoubleValue(Finite(15, 0 - 1))
              /\ m_values[ret.m_first + 1] = DoubleValue(Finite(2, 0))
              /\ m_values[ret.m_first + 2] = DoubleValue(Finite(3, 0))

(* C14 as stated: after one successful parse of a buffer that opens with   *)
(* the only header [s], getProperty(key, s) shows, for every declaration   *)
(* of key under [s], the type, count and values read for that declaration; *)
(* the [graphics] buffer yields its five keys.                             *)
C14_DeclaredFound ==
    /\ GraphicsScenario
    /\ OpensWithSection =>
          \A i \in 1..Len(declared) :
              declared[i].name = query.key => ShowsDeclared(declared[i])

(* C14, amended: getProperty(key, s) shows the type, count and values of   *)
(* the first declaration of key under [s]; a later declaration of the same *)
(* name is stored but not found.                                           *)
C14_FirstDeclaredFound ==
    /\ GraphicsScenario
    /\ OpensWithSection =>
          \A i \in 1..Len(declared) :
              (/\ declared[i].name = query.key
               /\ \A j \in 1..(i - 1) : declared[j].name # query.key)
              => ShowsDeclared(declared[i])

\* a lookup in [s] returned an array of two values of a key declared there
C14_Witness ==
    /\ OpensWithSection
    /\ query.section = <<"s">>
    /\ query.match >= 0
    /\ ret.m_count = 2
    /\ \E i \in 1..Len(declared) :
          declared[i].name = query.key /\ Len(declared[i].vals) = 2

(* C15: load returns FileNotFound when the file cannot be opened, FileIo   *)
(* when its size cannot be determined or the read is short or fails, and   *)
(* otherwise what parse returns on the content of the file; on            *)
(* FileNotFound and FileIo the sections, keys and values are those the     *)
(* store had before the call.                                              *)
C15_LoadResult ==
    (file.active /\ pc = "idle") =>
        IF ~file.opens
        THEN err = "kFileNotFound" /\ <<m_sections, m_keys, m_values>> = file.store
        ELSE IF file.flen < 0 \/ file.read \in {"short", "bad"}
        THEN err = "kFileIo" /\ <<m_sections, m_keys, m_values>> = file.store
        ELSE err \in {"kOk", "kSyntax"} /\ str = file.content

\* the contents of a key record: the type of a key that has no value yet
\* is not part of them
KeyContent(k) == IF k.m_count = 0 THEN [k EXCEPT !.m_type = Indeterminate] ELSE k

(* C16: the iteration in which parse returns Syntax leaves the sections,   *)
(* keys and values as they were before the offending token was read: no    *)
(* record is changed and none is appended.                                 *)
C16_SyntaxKeepsStore ==
    [][(pc = "parsing" /\ err' = "kSyntax")
        => /\ m_sections' = m_sections
           /\ Len(m_keys') = Len(m_keys)
           /\ \A i \in 1..Len(m_keys) : KeyContent(m_keys'[i]) = KeyContent(m_keys[i])
           /\ m_values' = m_values]_vars

(* C17: no step shortens the section, key or value list, changes a value   *)
(* that is in the value list, or changes the name or the start offset of a *)
(* section or key that is in its list.                                     *)
C17_AppendOnly ==
    [][/\ Len(m_sections') >= Len(m_sections)
       /\ Len(m_keys') >= Len(m_keys)
       /\ Len(m_values') >= Len(m_values)
       /\ \A i \in 1..Len(m_values) : m_values'[i] = m_values[i]
       /\ \A i \in 1..Len(m_keys) :
             /\ m_keys'[i].m_key = m_keys[i].m_key
             /\ m_keys'[i].m_valueOffset = m_keys[i].m_valueOffset
       /\ \A i \in 1..Len(m_sections) :
             /\ m_sections'[i].m_name = m_sections[i].m_name
             /\ m_sections'[i].m_keyOffset = m_sections[i].m_keyOffset]_vars

\* a second parse call has appended a section, a key and a value to those
\* of the first
C17_Witness ==
    /\ calls = 2
    /\ Len(m_sections) >= 2
    /\ Len(m_keys) >= 2
    /\ Len(m_values) >= 2
    /\ Len(declared) = 1
    /\ declared[1].vals # <<>>
    /\ m_sections[Len(m_sections)].m_keyOffset = Len(m_keys) - 1

(* C18: in every state of a parse call the cursor is at or before the      *)
(* terminating null of the buffer, and so is every position the iteration  *)
(* at hand moves it to before it reads a statement or a value.             *)
C18_CursorInBuffer ==
    /\ pos >= 1
    /\ pos <= Len(str) + 1
    /\ pc = "parsing" =>
          /\ AfterSpace.pos <= Len(str) + 1
          /\ StmtChar = ";" =>
                SkipLine(str, AfterSpace.pos, AfterSpace.line).pos <= Len(str) + 1
          /\ StmtChar \in {"=", ","} =>
                ValueStart(str, AfterSpace.pos, AfterSpace.line).pos <= Len(str) + 1

\* a comment that the terminating null ends has been skipped
C18_Witness ==
    /\ pc = "parsing"
    /\ pos = Len(str) + 1
    /\ \E p \in 1..Len(str) :
          /\ str[p] = ";"
          /\ \A q \in p..Len(str) : str[q] # "\n"
          /\ \A q \in 1..(p - 1) : str[q] = "\n"

(* C19: when getProperty finds a key, the first-value reference it returns *)
(* designates an element of the value list, and the count values from      *)
(* there lie in the list; so also for a key declared with no value.        *)
C19_FirstValueExists ==
    (query.asked /\ query.match >= 0) =>
        /\ ret.m_first >= 1
        /\ ret.m_first <= Len(m_values)
        /\ ret.m_first + ret.m_count - 1 <= Len(m_values)

(* C20: when parse(b1) returns Ok, parse(b1) followed by parse(b2) on an   *)
(* empty store ends with the return value, sections, keys and values (and  *)
(* string contents) that one parse of b1, a newline and b2 ends with on an *)
(* empty store; the two calls create the default section once.             *)
C20_TwoCallsAsOne ==
    /\ (trial.stage = 2 /\ pc = "idle") =>
          Cardinality({i \in 1..Len(m_sections) :
                          m_sections[i].m_name = kDefaultSection}) = 1
    /\ (trial.stage = 4 /\ pc = "idle") =>
          /\ err = trial.err
          /\ m_sections = trial.sections
          /\ m_keys = trial.keys
          /\ m_values = trial.values
          /\ heap = trial.heap

\* both runs are over, the second buffer went on with the array the first
\* had begun
C20_Witness ==
    /\ trial.stage = 4
    /\ pc = "idle"
    /\ err = "kOk"
    /\ trial.b1 # <<>>
    /\ trial.b2 # <<>>
    /\ trial.b2[1] = ","
    /\ Len(m_keys) = 1
    /\ Len(m_values) = 2

\* the index after the name that starts at p: the first character at p or
\* later that is not a letter or digit
NameEnd(b, p) ==
    CHOOSE i \in p..(Len(b) + 1) :
        /\ ~isalnum(CharAt(b, i))
        /\ \A j \in p..(i - 1) : isalnum(CharAt(b, j))

(* C21: an iteration that reads a property name which runs up to the       *)
(* terminating null returns Syntax and appends no key; one that reads a    *)
(* name followed by white space appends a key of that name with count 0    *)
(* and does not return.                                                    *)
C21_NameAtEnd ==
    [][(InLoop /\ isalnum(StmtChar) /\ ~isdigit(StmtChar))
        => LET beg  == AfterSpace.pos
               stop == NameEnd(str, beg)
           IN  /\ CharAt(str, stop) = NUL =>
                     /\ err' = "kSyntax"
                     /\ pc' = "idle"
                     /\ m_keys' = m_keys
                     /\ m_sections' = m_sections
               /\ isspace(CharAt(str, stop)) =>
                     /\ pc' = "parsing"
                     /\ err' = err
                     /\ m_keys' = Append(m_keys,
                                         [m_key |-> StringHash(SubSeq(str, beg, stop - 1)),
                                          m_valueOffset |-> Len(m_values),
                                          m_count |-> 0,
                                          m_type |-> Indeterminate])]_vars

\* a first call failed on a name at the end of its buffer and appended no
\* key; a second call read a name followed by white space and returned Ok
C21_Witness ==
    /\ calls = 2
    /\ Logged("Unexpected end of file")
    /\ pc = "idle"
    /\ err = "kOk"
    /\ Len(m_keys) = 1
    /\ m_keys[1].m_count = 0
    /\ Len(str) >= 2
    /\ isalnum(str[1])
    /\ isspace(str[Len(str)])

\* the step is a call of op that returned
Returns(op) == jlast'.tick # jlast.tick /\ jlast'.op = op /\ jpc' = "ready"

(* C22: a call of beginObject(name) or beginArray(name) that returns       *)
(* leaves the value stack one deeper than it was, with the named container *)
(* on top, whether the member existed or was created by the call.          *)
C22_BeginEnters ==
    [][((Returns("beginObject") \/ Returns("beginArray")) /\ jlast'.result)
        => /\ Len(m_stack') = Len(m_stack) + 1
           /\ m_stack'[Len(m_stack')].first = m_value'.node
           /\ dom'[m_value'.node].type
                 = (IF jlast'.op = "beginObject" THEN "Object" ELSE "Array")
           /\ (jlast'.name # NoName /\ dom[Top].type = "Object")
                 => /\ FindMember(Top, jlast'.name) > 0
                       => m_value'.node = dom[Top].kids[FindMember(Top, jlast'.name)]
                    /\ dom'[Top].names[Len(dom'[Top].names)] = jlast'.name
                       \/ FindMember(Top, jlast'.name) > 0]_vars

(* C23: on a container of n elements that was entered, the call of next    *)
(* that follows i earlier calls returns true and sets the current value to *)
(* element i when i < n, and returns false and sets the current value to   *)
(* no position beyond the end of the container when i >= n.                *)
C23_NextExactlyN ==
    [][(Returns("next") /\ Len(m_stack) >= 2)
        => LET i == TopIter
               n == Size(Top)
           IN  /\ i < n => /\ jlast'.result
                           /\ m_value' = Ptr(dom[Top].kids[i + 1])
               /\ i >= n => /\ ~jlast'.result
                            /\ m_value'.node = 0
                            /\ m_value'.idx <= n]_vars

====
